---- MODULE Spec2Model ----
(***************************************************************************)
(* fcrepo-import-export-verify: the two tree walkers, the resource         *)
(* classes (path translation and materialization) and the two             *)
(* reconciliation loops (FedoraImportExportVerifier.execute and the       *)
(* command line's main).  Strings are sequences of one-character strings, *)
(* so that startswith, endswith, slicing and quote are computed as Python *)
(* computes them.                                                          *)
(*                                                                         *)
(* The package holds two generations of the program.  The console entry    *)
(* point, cli.py's main, runs its loop over the classes of verify.py;      *)
(* FedoraImportExportVerifier.execute of verifier.py runs its loop over    *)
(* iterators.py, utils.py and resources.py.  In this snapshot verifier.py  *)
(* and iterators.py pass one argument less than the constructors of        *)
(* resources.py (console) and get_child_nodes of utils.py (predicates)     *)
(* take, and LocalResource reads config.mapFrom, which model.Config never  *)
(* sets.  Each function is modelled by its own body, its arguments bound   *)
(* by role and mapFrom None (no remapping); a constructor that raises is   *)
(* one of the outcomes every materialization has (fault).  cfg.engine      *)
(* tells the two loops apart: "execute" and "main".                        *)
(*                                                                         *)
(* Spec and SpecPair are the runs of the two loops; SpecReporter,          *)
(* SpecWalk and SpecWalkReporter are runs of execute with its reporter     *)
(* thread and over deeper trees; SpecRelaxed, SpecMapped and SpecUtils     *)
(* call relaxed_compare, LocalResource with a mapping, get_data_dir and    *)
(* replace_strings_in_file by themselves.                                  *)
(***************************************************************************)
EXTENDS Integers, Sequences, FiniteSets, TLC

VARIABLES cfg, world, pc, to_check, filepath, original, destination, verified, verification,
          success_count, failure_count, counter, records, yielded, log, popped,
          reporter, console_only,
          graph1, graph2, relaxed, eq_none, again, mapping, source, temps, materialized,
          fs, returned

vars ==
    <<cfg, world, pc, to_check, filepath, original, destination, verified, verification,
      success_count, failure_count, counter, records, yielded, log, popped,
      reporter, console_only,
      graph1, graph2, relaxed, eq_none, again, mapping, source, temps, materialized,
      fs, returned>>

\* The thread of count_logger: where it is, the total it has read, and the
\* summary it logged last at the console.
thread == <<reporter, console_only>>

\* The thread before it has logged anything.
Asleep ==
    /\ reporter = [pc |-> "sleep", total |-> 0]
    /\ console_only = [logged |-> FALSE, total |-> 0, successes |-> 0, failures |-> 0]

\* The frames of the calls made apart from a run: the two graphs handed to
\* relaxed_compare, what it returned, what Literal.eq makes of None and what
\* a second call returned; for a LocalResource built with a mapping, the
\* mapping, the file at origpath, the temporary files on disk and how the
\* constructor ended; and, for a function of utils.py called by itself, the
\* files on disk and what the call returned.
aside == <<graph1, graph2, relaxed, eq_none, again, mapping, source, temps, materialized, fs, returned>>

\* No call of relaxed_compare.
NoCompare ==
    /\ graph1 = {}
    /\ graph2 = {}
    /\ relaxed = "none"
    /\ eq_none = FALSE
    /\ again = [swapped |-> FALSE, verdict |-> "none", same |-> FALSE]

\* No LocalResource built with a mapping.
NoMaterialize ==
    /\ mapping = [mapFrom |-> <<>>, mapTo |-> <<>>, active |-> FALSE]
    /\ source = [exists |-> FALSE, lines |-> <<>>]
    /\ temps = {}
    /\ materialized = "none"

\* No function of utils.py called by itself.
NoUtility ==
    /\ fs = <<>>
    /\ returned = [fn |-> "none", ends |-> "none", value |-> <<>>]

\* No call apart from the run.
NoCall == NoCompare /\ NoMaterialize /\ NoUtility

\* Number of entries of a tree besides its root.
MaxNodes == 2

\* Largest number of triples of a graph.
MaxTriples == 2

----------------------------------------------------------------------------
\* Strings

EXT_BINARY_INTERNAL == <<".", "b", "i", "n", "a", "r", "y">>

EXT_BINARY_EXTERNAL == <<".", "e", "x", "t", "e", "r", "n", "a", "l">>

BAG_DATA_DIR == <<"/", "d", "a", "t", "a">>

\* The extension of the default serialization, text/turtle.
EXT_TTL == <<".", "t", "t", "l">>

FCR_METADATA == <<"/", "f", "c", "r", ":", "m", "e", "t", "a", "d", "a", "t", "a">>

FCR_VERSIONS == <<"/", "f", "c", "r", ":", "v", "e", "r", "s", "i", "o", "n", "s">>

\* A binary's description as the export tool names it on disk.
META_FILE == <<"f", "c", "r", "%", "3", "A", "m", "e", "t", "a", "d", "a", "t", "a", ".", "t", "t", "l">>

\* str.startswith
StartsWith(s, p) == Len(p) <= Len(s) /\ SubSeq(s, 1, Len(p)) = p

\* str.endswith
EndsWith(s, p) == Len(p) <= Len(s) /\ SubSeq(s, Len(s) - Len(p) + 1, Len(s)) = p

\* s[k:]
SliceFrom(s, k) == IF k >= Len(s) THEN <<>> ELSE SubSeq(s, k + 1, Len(s))

\* s[:-k]; with k = 0 Python reads s[:0], the empty string
SliceToNeg(s, k) == IF k = 0 \/ k >= Len(s) THEN <<>> ELSE SubSeq(s, 1, Len(s) - k)

\* str.rstrip("/")
RECURSIVE RStripSlash(_)
RStripSlash(s) == IF s # <<>> /\ s[Len(s)] = "/" THEN RStripSlash(SubSeq(s, 1, Len(s) - 1)) ELSE s

\* os.path.basename: what follows the last "/"
RECURSIVE Basename(_)
Basename(s) == IF s = <<>> \/ s[Len(s)] = "/" THEN <<>> ELSE Basename(SubSeq(s, 1, Len(s) - 1)) \o <<s[Len(s)]>>

\* The characters urllib's quote leaves alone: unreserved ones and its safe "/".
QuoteSafe ==
    {"a", "b", "c", "d", "e", "f", "g", "h", "i", "l", "m", "n", "o", "r", "s", "t", "v", "x", "y",
     "A", "0", "2", "3", "5", ".", "/"}

\* One character percent-encoded.
PctEncode(c) == IF c = ":" THEN <<"%", "3", "A">> ELSE IF c = "%" THEN <<"%", "2", "5">> ELSE <<"%", "2", "0">>

\* urllib.parse.quote
RECURSIVE quote(_)
quote(s) == IF s = <<>> THEN <<>> ELSE (IF Head(s) \in QuoteSafe THEN <<Head(s)>> ELSE PctEncode(Head(s))) \o quote(Tail(s))

\* The first position at which "://" begins, or 0.
SchemeSep(u) ==
    LET At(i) == SubSeq(u, i, i + 2) = <<":", "/", "/">>
    IN  IF \E i \in 1..(Len(u) - 2) : At(i)
        THEN CHOOSE i \in 1..(Len(u) - 2) : (At(i) /\ \A j \in 1..(i - 1) : ~At(j))
        ELSE 0

\* The position of the first "/" after the authority, or Len(u) + 1.
PathStart(u) ==
    LET a == SchemeSep(u) + 3
    IN  IF \E i \in a..Len(u) : u[i] = "/"
        THEN CHOOSE i \in a..Len(u) : (u[i] = "/" /\ \A j \in a..(i - 1) : u[j] # "/")
        ELSE Len(u) + 1

\* urlparse(u).path of a URI with a scheme and an authority; a string without them is all path
UrlPath(u) == IF SchemeSep(u) = 0 THEN u ELSE SliceFrom(u, PathStart(u) - 1)

\* urlinfo.scheme + "://" + urlinfo.netloc
GetBaseUri(u) == IF SchemeSep(u) = 0 THEN <<":", "/", "/">> ELSE SubSeq(u, 1, PathStart(u) - 1)

----------------------------------------------------------------------------
\* Configuration

REPO_WITH_PATH == <<"s", ":", "/", "/", "h", "/", "r">>

REPO_NO_PATH == <<"s", ":", "/", "/", "h">>

DIR_PLAIN == <<"/", "d">>

DIR_HIDDEN == <<"/", ".", "d">>

DIR_SPACED == <<"/", "d", " ", "x">>

\* Config.__init__: repopath and repobase
RepoPath(c) == UrlPath(c.repo)

RepoBase(c) == SliceToNeg(c.repo, Len(RepoPath(c)))

\* get_data_dir with the bag option taken for set
get_data_dirBag(c) == c.dir \o BAG_DATA_DIR

\* get_data_dir
get_data_dir(c) == IF ~c.bag THEN c.dir ELSE c.dir \o BAG_DATA_DIR

----------------------------------------------------------------------------
\* The two sides.  A tree is a root, 0, and entries 1..n with their parents
\* and labels.  On the repository side a label is what HEAD answers for the
\* node; on the filesystem side it is the kind of directory entry.

RepoLabels == {"rdf", "bin", "ext", "gone"}

FsLabels == {"dir", "hdir", "rdf", "bin", "ext", "unk", "hfile", "meta"}

Letter(n) == <<"a", "b", "c", "e">>[n]

\* The name of a directory entry.
FsName(w, n) ==
    LET l == w.label[n]
    IN  IF l = "hdir" \/ l = "hfile" THEN <<".", Letter(n)>>
        ELSE IF l = "rdf" THEN <<Letter(n)>> \o EXT_TTL
        ELSE IF l = "bin" THEN <<Letter(n)>> \o EXT_BINARY_INTERNAL
        ELSE IF l = "ext" THEN <<Letter(n)>> \o EXT_BINARY_EXTERNAL
        ELSE IF l = "meta" THEN META_FILE
        ELSE <<Letter(n)>>

\* The identifier of a node: the URI of a repository resource, the path of a directory entry.
RECURSIVE Ident(_, _, _)
Ident(c, w, n) ==
    IF n = 0 THEN (IF c.mode = "export" THEN c.repo ELSE c.dir)
    ELSE Ident(c, w, w.parent[n]) \o <<"/">> \o (IF c.mode = "export" THEN <<Letter(n)>> ELSE FsName(w, n))

Nodes(w) == 0..w.n

ChildIds(w, n) == {m \in 1..w.n : w.parent[m] = n}

\* Every order in which a listing can return a set of children.
Orders(S) == {s \in [1..Cardinality(S) -> S] : \A x \in S : \E i \in 1..Cardinality(S) : s[i] = x}

\* The trees of min to max entries; contents says how much the two sides vary
\* in what they hold: over every digest, graph and failure ("all"), or over one
\* digest, two graphs, a missing counterpart and a failing request ("plain").
Trees(labels, min, max, contents) ==
    UNION {[n : {k},
            parent : {p \in [1..k -> 0..(k - 1)] : \A i \in 1..k : p[i] < i},
            label : [0..k -> labels],
            contents : {contents}] : k \in min..max}

\* Only a container holds children; a repository root is at config.repo.
RepoWorlds(min, max, contents) ==
    {w \in Trees(RepoLabels, min, max, contents) : \A m \in 1..w.n : w.label[w.parent[m]] = "rdf"}

\* Only a directory holds entries, the root (at config.dir) is a directory, and no two entries of a directory share a name.
FsWorlds(min, max, contents) ==
    {w \in Trees(FsLabels, min, max, contents) :
        /\ w.label[0] = "dir"
        /\ \A m \in 1..w.n : w.label[w.parent[m]] \in {"dir", "hdir"}
        /\ \A m1, m2 \in 1..w.n : ((m1 # m2 /\ w.parent[m1] = w.parent[m2]) => FsName(w, m1) # FsName(w, m2))}

\* The keys of EXT_MAP: the serializations Config knows the extension of.
RdfLangs == {"text/turtle"}

Configs ==
    {c \in [engine : {"execute", "main"}, mode : {"export", "import"}, bin : BOOLEAN,
            repo : {REPO_WITH_PATH, REPO_NO_PATH}, dir : {DIR_PLAIN, DIR_HIDDEN, DIR_SPACED},
            bag : {FALSE}, ext : {EXT_TTL}, lang : {"text/turtle", "text/html"},
            loglevel : {"INFO", "ERROR"}] :
        /\ (c.dir = DIR_HIDDEN => c.mode = "import")
        /\ (c.dir = DIR_SPACED => (c.mode = "export" /\ c.repo = REPO_WITH_PATH))
        /\ (c.lang \notin RdfLangs => (c.dir = DIR_PLAIN /\ c.repo = REPO_WITH_PATH))
        /\ (c.loglevel # "INFO" =>
               (c.mode = "import" /\ ~c.bin /\ c.dir = DIR_PLAIN /\ c.repo = REPO_WITH_PATH /\ c.lang \in RdfLangs))}

\* What HEAD answers for a URI: the label of the node at it, "rdf" for a binary's description, "gone" for anything else.
RepoKind(c, w, u) ==
    IF \E n \in Nodes(w) : Ident(c, w, n) = u THEN w.label[CHOOSE n \in Nodes(w) : Ident(c, w, n) = u]
    ELSE IF \E n \in Nodes(w) : (w.label[n] \in {"bin", "ext"} /\ u = Ident(c, w, n) \o FCR_METADATA) THEN "rdf"
    ELSE "gone"

\* The objects of the containment triples of the graph at a URI.
Contained(c, w, u) == {Ident(c, w, m) : m \in {k \in 1..w.n : Ident(c, w, w.parent[k]) = u}}

\* os.path.isfile
isfile(c, w, p) == \E n \in Nodes(w) : Ident(c, w, n) = p /\ w.label[n] \notin {"dir", "hdir"}

\* get_directory_contents: the paths of the entries of a directory
get_directory_contents(c, w, p) == {Ident(c, w, m) : m \in {k \in 1..w.n : Ident(c, w, w.parent[k]) = p}}

\* A get_child_nodes that takes the objects of the containment triples whatever the type link says.
get_child_nodesContained(c, w, node) == Contained(c, w, node)

\* get_child_nodes, for a node HEAD answers 200 or 307 for: a binary's only child is its description
get_child_nodes(c, w, node) == IF RepoKind(c, w, node) \in {"bin", "ext"} THEN {node \o FCR_METADATA} ELSE Contained(c, w, node)

----------------------------------------------------------------------------
\* Contents.  A digest is a SHA-1 in hex; a graph is a set of triples
\* <<subject, object>> of one predicate, over a URI and two blank nodes.

Digests == {"d1", "d2"}

PlainDigests == {"d1"}

PlainGraphs == {{<<"u", "u">>}}


BNodes == {"_1", "_2"}

Triples == {"u", "_1", "_2"} \X {"u", "_1"}

Graphs == {g \in SUBSET Triples : Cardinality(g) <= MaxTriples}

\* The digests and the graphs that occur in a snapshot.
DigestsOf(w) == IF w.contents = "all" THEN Digests ELSE PlainDigests

GraphsOf(w) == IF w.contents = "all" THEN Graphs ELSE PlainGraphs

Renamed(g, f) == {<<(IF t[1] \in BNodes THEN f[t[1]] ELSE t[1]), (IF t[2] \in BNodes THEN f[t[2]] ELSE t[2])>> : t \in g}

\* rdflib.compare.isomorphic: equal up to a one-to-one renaming of blank nodes
\* A comparison of graphs that takes blank node labels literally.
isomorphicLiteral(g1, g2) == g1 = g2

isomorphic(g1, g2) ==
    \E f \in {h \in [BNodes -> BNodes] : \A x, y \in BNodes : (h[x] = h[y] => x = y)} : Renamed(g1, f) = g2

\* What the repository answers for one URI: the HEAD status and type link
\* (fault: the request itself fails), the digest its description records
\* (sha, "" when it records none; metaok: the description is served), the
\* digest of the content an external binary points to, and its graph
\* (getok: both representations are served).
NoAnswer ==
    [fault |-> FALSE, status |-> 200, link |-> "none", sha |-> "", metaok |-> TRUE, stream |-> "d1",
     getok |-> TRUE, graph |-> {}]

BinaryAnswers(w, status) ==
    {[NoAnswer EXCEPT !.status = status, !.link = "nonrdf", !.sha = d, !.stream = d] : d \in DigestsOf(w)}
    \cup {[NoAnswer EXCEPT !.status = status, !.link = "nonrdf", !.sha = "", !.metaok = ok] :
            ok \in (IF w.contents = "all" THEN BOOLEAN ELSE {})}

RdfAnswers(w) ==
    {[NoAnswer EXCEPT !.link = "rdf", !.graph = g] : g \in GraphsOf(w)}
    \cup (IF w.contents = "all" THEN {[NoAnswer EXCEPT !.link = "rdf", !.getok = FALSE]} ELSE {})

FaultAnswers == {[NoAnswer EXCEPT !.fault = TRUE]}

FedoraAnswers(w) ==
    BinaryAnswers(w, 200) \cup BinaryAnswers(w, 307) \cup RdfAnswers(w) \cup FaultAnswers
    \cup {[NoAnswer EXCEPT !.status = 404], [NoAnswer EXCEPT !.status = 500]}
    \cup (IF w.contents = "all" THEN {NoAnswer} ELSE {})

\* The answers for a URI the walker found with the given label.
AnswersFor(w, kind) ==
    FaultAnswers \cup (IF kind = "bin" THEN BinaryAnswers(w, 200)
                       ELSE IF kind = "ext" THEN BinaryAnswers(w, 307)
                       ELSE IF kind = "rdf" THEN RdfAnswers(w)
                       ELSE {[NoAnswer EXCEPT !.status = 404]})

\* What the filesystem holds at one path: whether a file is there, the
\* digest of its bytes, and its graph (parses: the parser accepts it).
NoFile == [exists |-> FALSE, sha |-> "d1", parses |-> FALSE, graph |-> {}]

\* The files that matter to a path of the given suffix.
FilesFor(w, p) ==
    IF EndsWith(p, EXT_BINARY_INTERNAL) \/ EndsWith(p, EXT_BINARY_EXTERNAL)
    THEN {[NoFile EXCEPT !.exists = TRUE, !.sha = d] : d \in DigestsOf(w)}
    ELSE {[NoFile EXCEPT !.exists = TRUE, !.parses = TRUE, !.graph = g] : g \in GraphsOf(w)}
         \cup (IF w.contents = "all" THEN {[NoFile EXCEPT !.exists = TRUE]} ELSE {})

----------------------------------------------------------------------------
\* Resources.  An object is a record of its attributes; attrs names the
\* ones __init__ has set (reading another raises AttributeError).

Unbound ==
    [location |-> "none", origpath |-> <<>>, relpath |-> <<>>, type |-> "", external |-> FALSE,
     destpath |-> <<>>, sha1 |-> "", graph |-> {}, attrs |-> {}]

Bound(o) == o.location # "none"

Has(o, a) == Bound(o) /\ a \in o.attrs

\* The outcome of a constructor call: the exception it raises ("none": it returns obj).
Returns(o) == [raise |-> "none", obj |-> o]

Raises(e) == [raise |-> e, obj |-> Unbound]

\* FedoraResource.__init__ of resources.py
FedoraResource(c, inputpath, a) ==
    LET relpath == RStripSlash(UrlPath(inputpath))
        base == [Unbound EXCEPT !.location = "fedora", !.origpath = inputpath, !.relpath = relpath]
        ldp == IF a.status = 200 /\ EndsWith(inputpath, FCR_VERSIONS) THEN "rdf" ELSE a.link
        external == (a.status = 307)
        suffix == IF external THEN EXT_BINARY_EXTERNAL ELSE EXT_BINARY_INTERNAL
        sha1 == IF external THEN a.stream ELSE IF a.metaok THEN a.sha ELSE ""
        binary == [base EXCEPT !.type = "binary", !.external = external, !.sha1 = sha1,
                               !.destpath = quote(get_data_dir(c) \o relpath \o suffix),
                               !.attrs = {"type", "external", "sha1", "destpath"}]
        rdf == [base EXCEPT !.type = "rdf", !.external = external,
                            !.destpath = quote(get_data_dir(c) \o relpath \o c.ext),
                            !.graph = (IF a.getok THEN a.graph ELSE {}),
                            !.attrs = {"type", "external", "destpath"} \cup (IF a.getok THEN {"graph"} ELSE {})]
    IN  IF a.fault THEN Raises("Exception")
        ELSE IF a.status \in {200, 307}
             THEN (IF ldp = "none" THEN Raises("Exception")
                   ELSE IF ldp = "nonrdf" THEN Returns(binary)
                   ELSE Returns(rdf))
        ELSE IF a.status \in {401, 403, 404, 405} THEN Raises("Exception")
        ELSE Raises("SystemExit")

\* FedoraResource.__init__ of verify.py, the module the command line imports
FedoraResourceOld(c, inputpath, a) ==
    LET relpath == RStripSlash(UrlPath(inputpath))
        base == [Unbound EXCEPT !.location = "fedora", !.origpath = inputpath, !.relpath = relpath]
        external == (a.status = 307)
        suffix == IF external THEN EXT_BINARY_EXTERNAL ELSE EXT_BINARY_INTERNAL
        binary == [base EXCEPT !.type = "binary", !.external = external,
                               !.sha1 = (IF a.metaok THEN a.sha ELSE ""),
                               !.destpath = quote(c.dir \o relpath \o suffix),
                               !.attrs = {"type", "external", "destpath"} \cup (IF a.metaok THEN {"sha1"} ELSE {})]
        rdf == [base EXCEPT !.type = "rdf", !.external = external,
                            !.destpath = quote(c.dir \o relpath \o c.ext),
                            !.graph = (IF a.getok THEN a.graph ELSE {}),
                            !.attrs = {"type", "external", "destpath"} \cup (IF a.getok THEN {"graph"} ELSE {})]
    IN  IF a.fault THEN Raises("Exception")
        ELSE IF a.status \notin {200, 307} THEN Raises("Exception")
        ELSE IF a.link = "none" THEN Raises("Exception")
        ELSE IF a.link = "nonrdf" THEN Returns(binary)
        ELSE Returns(rdf)

\* LocalResource.is_binary
is_binary(origpath) == EndsWith(origpath, EXT_BINARY_INTERNAL) \/ EndsWith(origpath, EXT_BINARY_EXTERNAL)

\* A _resolve_dest_path that percent-encodes the relative path.
resolve_dest_pathQuoted(c, relpath, suffix) == GetBaseUri(c.repo) \o quote(SliceToNeg(relpath, Len(suffix)))

\* LocalResource._resolve_dest_path, no remapping configured
resolve_dest_path(c, relpath, suffix) == GetBaseUri(c.repo) \o SliceToNeg(relpath, Len(suffix))

\* LocalResource.__init__, given the root its relpath is cut from and whether an unknown kind has a type
LocalInit(c, root, inputpath, f, typed) ==
    LET relpath == SliceFrom(inputpath, Len(root))
        base == [Unbound EXCEPT !.location = "local", !.origpath = inputpath, !.relpath = relpath]
        external == EndsWith(inputpath, EXT_BINARY_EXTERNAL)
        suffix == IF external THEN EXT_BINARY_EXTERNAL ELSE EXT_BINARY_INTERNAL
        binary == [base EXCEPT !.type = "binary", !.external = external,
                               !.destpath = resolve_dest_path(c, relpath, suffix),
                               !.sha1 = f.sha,
                               !.attrs = {"type", "external", "destpath", "sha1"}]
        rdf == [base EXCEPT !.type = "rdf",
                            !.destpath = resolve_dest_path(c, relpath, c.ext),
                            !.graph = f.graph,
                            !.attrs = {"type", "destpath", "graph"}]
        unknown == [base EXCEPT !.type = "unknown", !.attrs = IF typed THEN {"type"} ELSE {}]
    IN  IF is_binary(inputpath)
        THEN (IF ~f.exists THEN Raises("FileNotFoundError") ELSE Returns(binary))
        ELSE IF StartsWith(inputpath, root) /\ EndsWith(inputpath, c.ext)
             THEN (IF ~f.exists THEN Raises("FileNotFoundError")
                   ELSE IF ~f.parses THEN Raises("Exception")
                   ELSE Returns(rdf))
        ELSE Returns(unknown)

\* LocalResource.__init__ of resources.py
LocalResource(c, inputpath, f) == LocalInit(c, get_data_dir(c), inputpath, f, TRUE)

\* LocalResource.__init__ of verify.py, the module the command line imports
LocalResourceOld(c, inputpath, f) == LocalInit(c, c.dir, inputpath, f, FALSE)

----------------------------------------------------------------------------
\* The comparison and the two loop bodies.

NumStr(n) == <<"0", "1", "2", "3", "4", "5", "6", "7", "8", "9">>[n + 1]

\* The loop variable when the walker returns None.
None == <<"None">>

\* The outcome of a stretch of a loop body: where control goes next and the locals it leaves.
Outcome(ctl, o, d, v, e) ==
    [ctl |-> ctl, original |-> o, destination |-> d, verified |-> v, verification |-> e]

\* A comparison that lets the verdict on an external destination stand.
CompareExternal(o, d, v, e) ==
    LET raised == [raise |-> "Exception", verified |-> v, verification |-> e]
        result(vv, ee) == [raise |-> "none", verified |-> vv, verification |-> ee]
        n1 == NumStr(Cardinality(o.graph))
        n2 == NumStr(Cardinality(d.graph))
    IN  IF ~Has(o, "type") THEN raised
        ELSE IF o.type = "binary"
             THEN (IF ~Bound(d) \/ ~Has(o, "sha1") \/ ~Has(d, "sha1") THEN raised
                   ELSE IF EndsWith(d.origpath, EXT_BINARY_EXTERNAL) THEN result("False", <<"external resource">>)
                   ELSE IF o.sha1 = d.sha1 THEN result("True", <<o.sha1>>)
                   ELSE result("False", <<o.sha1, " != ", d.sha1>>))
        ELSE IF o.type = "rdf"
             THEN (IF ~Bound(d) \/ ~Has(o, "graph") \/ ~Has(d, "graph") THEN raised
                   ELSE IF isomorphic(o.graph, d.graph) THEN result("True", <<n1, " triples">>)
                   ELSE result("False", <<n1, "+", n2, " triples - mismatch">>))
        ELSE result(v, e)

\* The kind-specific comparison of both loops (verifier.py 136-160, cli.py 111-134);
\* raise is the exception an unset attribute or an unbound destination raises.
Compare(o, d, v, e) ==
    LET raised == [raise |-> "Exception", verified |-> v, verification |-> e]
        result(vv, ee) == [raise |-> "none", verified |-> vv, verification |-> ee]
        n1 == NumStr(Cardinality(o.graph))
        n2 == NumStr(Cardinality(d.graph))
    IN  IF ~Has(o, "type") THEN raised
        ELSE IF o.type = "binary"
             THEN (IF ~Bound(d) \/ ~Has(o, "sha1") \/ ~Has(d, "sha1") THEN raised
                   ELSE IF o.sha1 = d.sha1 THEN result("True", <<o.sha1>>)
                   ELSE result("False", <<o.sha1, " != ", d.sha1>>))
        ELSE IF o.type = "rdf"
             THEN (IF ~Bound(d) \/ ~Has(o, "graph") \/ ~Has(d, "graph") THEN raised
                   ELSE IF isomorphic(o.graph, d.graph) THEN result("True", <<n1, " triples">>)
                   ELSE result("False", <<n1, "+", n2, " triples - mismatch">>))
        ELSE result(v, e)

\* A handler that passes over the identifier without a row.
CaughtSilently(o, d, ex) == Outcome("continue", o, d, "False", <<"Object could not be verified: ", ex>>)

\* The handler of execute's try block (verifier.py 167-170).
Caught(o, d, ex) == Outcome("count", o, d, "False", <<"Object could not be verified: ", ex>>)

\* execute: whether the loop skips the original (verifier.py 121-125)
Skips(c, o) == ~c.bin /\ (o.type = "binary" \/ EndsWith(o.origpath, FCR_METADATA))

\* execute: the original of an identifier (verifier.py 108-119); "SystemExit" for one in neither path
ExecuteOriginal(c, f, in1) ==
    IF StartsWith(f, c.repo) THEN FedoraResource(c, f, in1[1])
    ELSE IF StartsWith(f, RepoBase(c)) THEN LocalResource(c, f, in1[2])
    ELSE Raises("SystemExit")

\* execute: the destination of an original (verifier.py 127-134); neither branch leaves the local as it was
ExecuteDestination(c, f, o, d0, in2) ==
    IF StartsWith(f, c.repo)
    THEN (IF ~Has(o, "destpath") THEN Raises("Exception") ELSE LocalResource(c, o.destpath, in2[2]))
    ELSE IF StartsWith(f, c.dir)
         THEN (IF ~Has(o, "destpath") THEN Raises("Exception") ELSE FedoraResource(c, o.destpath, in2[1]))
    ELSE Returns(d0)

\* execute: the try block of one iteration (verifier.py 106-170)
ExecuteTry(c, f, o0, d0, v0, e0, in1, in2) ==
    LET r1 == ExecuteOriginal(c, f, in1)
        o == r1.obj
        r2 == ExecuteDestination(c, f, o, d0, in2)
        d == r2.obj
        cmp == Compare(o, d, v0, e0)
    IN  IF r1.raise = "SystemExit" THEN Outcome("exit", o0, d0, v0, e0)
        ELSE IF r1.raise # "none" THEN Caught(o0, d0, r1.raise)
        ELSE IF Skips(c, o) THEN Outcome("continue", o, d0, v0, e0)
        ELSE IF r2.raise = "SystemExit" THEN Outcome("exit", o, d0, v0, e0)
        ELSE IF r2.raise # "none" THEN Caught(o, d0, r2.raise)
        ELSE IF cmp.raise # "none" THEN Caught(o, d, cmp.raise)
        ELSE Outcome("count", o, d, cmp.verified, cmp.verification)

\* main: the original of an identifier (cli.py 88-94)
MainOriginal(c, f, in1) ==
    IF StartsWith(f, c.repo) THEN FedoraResourceOld(c, f, in1[1])
    ELSE IF StartsWith(f, c.dir) THEN LocalResourceOld(c, f, in1[2])
    ELSE Raises("SystemExit")

\* main: the destination of an original (cli.py 103-110)
MainDestination(c, f, o, d0, in2) ==
    IF StartsWith(f, c.repo)
    THEN (IF ~Has(o, "destpath") THEN Raises("Exception") ELSE LocalResourceOld(c, o.destpath, in2[2]))
    ELSE IF StartsWith(f, c.dir)
         THEN (IF ~Has(o, "destpath") THEN Raises("Exception") ELSE FedoraResourceOld(c, o.destpath, in2[1]))
    ELSE Returns(d0)

\* main: one iteration up to the end of its try block (cli.py 86-137); only FileNotFoundError is handled
MainTry(c, f, o0, d0, v0, e0, in1, in2) ==
    LET r1 == MainOriginal(c, f, in1)
        o == r1.obj
        r2 == MainDestination(c, f, o, d0, in2)
        d == r2.obj
        cmp == Compare(o, d, v0, e0)
    IN  IF r1.raise = "SystemExit" THEN Outcome("exit", o0, d0, v0, e0)
        ELSE IF r1.raise # "none" THEN Outcome("crash", o0, d0, v0, e0)
        ELSE IF ~c.bin /\ ~Has(o, "type") THEN Outcome("crash", o, d0, v0, e0)
        ELSE IF Skips(c, o) THEN Outcome("continue", o, d0, v0, e0)
        ELSE IF r2.raise = "FileNotFoundError" THEN Outcome("write", o, d0, "False", <<"destination file not found">>)
        ELSE IF r2.raise # "none" THEN Outcome("crash", o, d0, v0, e0)
        ELSE IF cmp.raise # "none" THEN Outcome("crash", o, d, v0, e0)
        ELSE Outcome("write", o, d, cmp.verified, cmp.verification)

\* logger.error, console.error: the entry joins the log (loggers.py 17-51; the levels offered are INFO, WARN, DEBUG and ERROR)
error(lg, msg) == lg \cup {msg}

\* logger.warn: a logger set to ERROR drops the entry (cli.py 64-67, loggers.py 50)
warn(level, lg, msg) == IF level = "ERROR" THEN lg ELSE lg \cup {msg}

\* The log after a loop body has called sys.exit(1): the warning of the else branch (verifier.py 116-119,
\* cli.py 93-94), or FedoraResource's error at a status it does not expect (resources.py 64-69)
ExitLogged(c, f, r1, lg) ==
    IF r1.raise = "SystemExit" /\ ~StartsWith(f, c.repo)
    THEN warn(c.loglevel, lg, "Resource not in path specified in config file.")
    ELSE error(lg, "Unexpected response from Fedora")

\* What the side of the original can hold at an identifier the walker returned.
OrigInputs(c, w, f) ==
    IF StartsWith(f, c.repo)
    THEN {<<a, NoFile>> : a \in AnswersFor(w, RepoKind(c, w, f))}
    ELSE {<<NoAnswer, x>> : x \in FilesFor(w, f)}

\* What the other side can hold at the counterpart of an original.
DestInputs(c, w, f, r1) ==
    IF r1.raise # "none" \/ ~Has(r1.obj, "destpath") \/ Skips(c, r1.obj) THEN {<<NoAnswer, NoFile>>}
    ELSE IF StartsWith(f, c.repo) THEN {<<NoAnswer, x>> : x \in FilesFor(w, r1.obj.destpath) \cup {NoFile}}
    ELSE {<<a, NoFile>> : a \in FedoraAnswers(w)}

----------------------------------------------------------------------------
\* The state machine.  pc is the place of the main thread: "start" (the
\* connection test of execute), "loop" (the walker's __next__), "body",
\* "count", "write", and the three ends "done", "exit" (sys.exit(1)) and
\* "crash" (an exception nothing handles).  yielded is the history of the
\* identifiers the walker returned, each with what became of it.

Start(repoworlds, fsworlds) ==
    /\ cfg \in Configs
    /\ world \in (IF cfg.mode = "export" THEN repoworlds ELSE fsworlds)
    /\ pc = "config"
    /\ to_check = <<Ident(cfg, world, 0)>>
    /\ filepath = None
    /\ original = Unbound
    /\ destination = Unbound
    /\ verified = "unbound"
    /\ verification = <<>>
    /\ success_count = 0
    /\ failure_count = 0
    /\ counter = 0
    /\ records = <<>>
    /\ yielded = <<>>
    /\ log = {}
    /\ popped = <<>>
    /\ Asleep
    /\ NoCall

\* Config.__init__: the extension of the serialization, or the end of the process (model.py 80-92, verify.py 102-115)
LoadConfig ==
    /\ pc = "config"
    /\ (IF cfg.lang \in RdfLangs
        THEN /\ pc' = (IF cfg.engine = "execute" THEN "start" ELSE "loop")
             /\ log' = log
        ELSE /\ pc' = "exit"
             /\ log' = error(log, "Unrecognized RDF serialization specified in config file!"))
    /\ UNCHANGED <<aside, thread>>
    /\ UNCHANGED <<cfg, world, to_check, filepath, original, destination, verified, verification,
                   success_count, failure_count, counter, records, yielded, popped>>

\* The status the connection test's HEAD of the root receives.
RootStatuses ==
    IF cfg.mode = "export"
    THEN {IF RepoKind(cfg, world, cfg.repo) \in {"rdf", "bin"} THEN 200
          ELSE IF RepoKind(cfg, world, cfg.repo) = "ext" THEN 307
          ELSE 404}
    ELSE {200, 404}

\* Repository.root and Repository.is_reachable: HEAD of base + path answers 200
RepositoryRoot(c) == RepoBase(c) \o RepoPath(c)

\* A connection test that goes on whatever the status.
ConnectAnyway ==
    /\ pc = "start"
    /\ \E status \in RootStatuses :
          /\ pc' = (IF SchemeSep(RepositoryRoot(cfg)) = 0 THEN "crash" ELSE "loop")
          /\ log' = (IF SchemeSep(RepositoryRoot(cfg)) # 0 /\ status # 200
                     THEN error(log, "Connection to {0} failed. Exiting.") ELSE log)
    /\ UNCHANGED <<aside, thread>>
    /\ UNCHANGED <<cfg, world, to_check, filepath, original, destination, verified, verification,
                   success_count, failure_count, counter, records, yielded, popped>>

\* execute: the connection test (verifier.py 42-51); requests refuses a URL without a scheme
Connect ==
    /\ pc = "start"
    /\ \E status \in RootStatuses :
          /\ pc' = (IF SchemeSep(RepositoryRoot(cfg)) = 0 THEN "crash" ELSE IF status = 200 THEN "loop" ELSE "exit")
          /\ log' = (IF SchemeSep(RepositoryRoot(cfg)) # 0 /\ status # 200
                     THEN error(log, "Connection to {0} failed. Exiting.") ELSE log)
    /\ UNCHANGED <<aside, thread>>
    /\ UNCHANGED <<cfg, world, to_check, filepath, original, destination, verified, verification,
                   success_count, failure_count, counter, records, yielded, popped>>

\* An FcrepoWalker.__next__ that returns the node whatever its probe answers.
FcrepoNextLenient(c, w, stack, order) ==
    [ctl |-> "return", to_check |-> SubSeq(stack, 1, Len(stack) - 1) \o order, ret |-> stack[Len(stack)]]

\* FcrepoWalker.__next__: pop, probe, push the children in the order the listing gives, return the node
FcrepoNext(c, w, stack, order) ==
    LET current == stack[Len(stack)]
        rest == SubSeq(stack, 1, Len(stack) - 1)
    IN  IF RepoKind(c, w, current) = "gone" THEN [ctl |-> "exit", to_check |-> rest, ret |-> None]
        ELSE [ctl |-> "return", to_check |-> rest \o order, ret |-> current]

\* A LocalWalker.__next__ that does not pass over hidden entries.
LocalNextHidden(c, w, stack, order) ==
    LET current == stack[Len(stack)]
        rest == SubSeq(stack, 1, Len(stack) - 1)
    IN  IF isfile(c, w, current) THEN [ctl |-> "return", to_check |-> rest, ret |-> current]
        ELSE [ctl |-> "return", to_check |-> rest \o order, ret |-> None]

\* A LocalWalker.__next__ that passes over hidden files only and lists a hidden directory.
LocalNextListsHidden(c, w, stack, order) ==
    LET current == stack[Len(stack)]
        rest == SubSeq(stack, 1, Len(stack) - 1)
    IN  IF isfile(c, w, current)
        THEN [ctl |-> "return", to_check |-> rest,
              ret |-> (IF StartsWith(Basename(current), <<".">>) THEN None ELSE current)]
        ELSE [ctl |-> "return", to_check |-> rest \o order, ret |-> None]

\* A LocalWalker.__next__ that puts the entries of a directory under the stack.
LocalNextQueue(c, w, stack, order) ==
    LET current == stack[Len(stack)]
        rest == SubSeq(stack, 1, Len(stack) - 1)
    IN  IF StartsWith(Basename(current), <<".">>) THEN [ctl |-> "return", to_check |-> rest, ret |-> None]
        ELSE IF isfile(c, w, current) THEN [ctl |-> "return", to_check |-> rest, ret |-> current]
        ELSE [ctl |-> "return", to_check |-> order \o rest, ret |-> None]

\* LocalWalker.__next__: pop; None for a hidden entry, the path of a file, None for a directory after pushing its entries
LocalNext(c, w, stack, order) ==
    LET current == stack[Len(stack)]
        rest == SubSeq(stack, 1, Len(stack) - 1)
    IN  IF StartsWith(Basename(current), <<".">>) THEN [ctl |-> "return", to_check |-> rest, ret |-> None]
        ELSE IF isfile(c, w, current) THEN [ctl |-> "return", to_check |-> rest, ret |-> current]
        ELSE [ctl |-> "return", to_check |-> rest \o order, ret |-> None]

\* What the listing of the top of the stack holds: the children a __next__ can push.
Pushed(c, w, stack) ==
    LET current == stack[Len(stack)]
    IN  IF c.mode = "export"
        THEN (IF RepoKind(c, w, current) = "gone" THEN {} ELSE get_child_nodes(c, w, current))
        ELSE get_directory_contents(c, w, current)

\* One turn of "for filepath in tree" (verifier.py 101-104, cli.py 84-86): a None is passed over
WalkNext ==
    /\ pc = "loop"
    /\ to_check # <<>>
    /\ \E order \in Orders(Pushed(cfg, world, to_check)) :
          \E n \in {IF cfg.mode = "export"
                     THEN FcrepoNext(cfg, world, to_check, order)
                     ELSE LocalNext(cfg, world, to_check, order)} :
          LET entry == [id |-> n.ret, fate |-> "pending", rows |-> Len(records),
                        total |-> success_count + failure_count]
          IN  /\ to_check' = n.to_check
              /\ filepath' = n.ret
              /\ pc' = (IF n.ctl = "exit" THEN "exit" ELSE IF n.ret = None THEN "loop" ELSE "body")
              /\ yielded' = (IF n.ctl = "return" /\ n.ret # None THEN Append(yielded, entry) ELSE yielded)
              /\ log' = (IF n.ctl = "exit" THEN error(log, "Error communicating with repository.") ELSE log)
    /\ popped' = Append(popped, [id |-> to_check[Len(to_check)], below |-> SubSeq(to_check, 1, Len(to_check) - 1)])
    /\ UNCHANGED <<aside, thread>>
    /\ UNCHANGED <<cfg, world, original, destination, verified, verification,
                   success_count, failure_count, counter, records>>

\* A walker that raises no StopIteration: __next__ of an empty stack returns None.
WalkStopNever ==
    /\ pc = "loop"
    /\ to_check = <<>>
    /\ filepath' = None
    /\ UNCHANGED <<aside, thread, log, pc>>
    /\ UNCHANGED <<cfg, world, to_check, original, destination, verified, verification,
                   success_count, failure_count, counter, records, yielded, popped>>

\* StopIteration ends the loop: the last summary and "Verification complete"
\* are logged at the console and execute returns (verifier.py 204-207, cli.py 139-144)
WalkStop ==
    /\ pc = "loop"
    /\ to_check = <<>>
    /\ pc' = "done"
    /\ UNCHANGED <<aside, thread, log>>
    /\ UNCHANGED <<cfg, world, to_check, filepath, original, destination, verified, verification,
                   success_count, failure_count, counter, records, yielded, popped>>

\* The last identifier returned meets its fate.
Fated(y, fate) == [y EXCEPT ![Len(y)].fate = fate]

\* execute: the try block of the iteration (verifier.py 106-170)
ExecuteBody ==
    /\ pc = "body"
    /\ cfg.engine = "execute"
    /\ \E in1 \in OrigInputs(cfg, world, filepath) :
          \E in2 \in DestInputs(cfg, world, filepath, ExecuteOriginal(cfg, filepath, in1)) :
             \E out \in {ExecuteTry(cfg, filepath, original, destination, verified, verification, in1, in2)} :
                 /\ pc' = (IF out.ctl = "continue" THEN "loop" ELSE out.ctl)
                 /\ original' = out.original
                 /\ destination' = out.destination
                 /\ verified' = out.verified
                 /\ verification' = out.verification
                 /\ yielded' = (IF out.ctl = "continue" THEN Fated(yielded, "skipped") ELSE yielded)
                 /\ log' = (IF out.ctl = "exit"
                            THEN ExitLogged(cfg, filepath, ExecuteOriginal(cfg, filepath, in1), log)
                            ELSE log)
    /\ UNCHANGED <<aside, thread>>
    /\ UNCHANGED <<cfg, world, to_check, filepath, success_count, failure_count, counter, records, popped>>

\* Counters of which the failure counter moves at every row.
ExecuteCountBoth ==
    /\ pc = "count"
    /\ (IF verified = "unbound" \/ (verified = "False" /\ ~Bound(original))
        THEN /\ pc' = "crash"
             /\ UNCHANGED <<success_count, failure_count>>
        ELSE /\ pc' = "write"
             /\ failure_count' = failure_count + 1
             /\ success_count' = (IF verified = "False" THEN success_count ELSE success_count + 1))
    /\ UNCHANGED <<aside, thread, log>>
    /\ UNCHANGED <<cfg, world, to_check, filepath, original, destination, verified, verification,
                   counter, records, yielded, popped>>

\* execute: the counters (verifier.py 172-178); the warning reads original.relpath first
ExecuteCount ==
    /\ pc = "count"
    /\ (IF verified = "unbound" \/ (verified = "False" /\ ~Bound(original))
        THEN /\ pc' = "crash"
             /\ UNCHANGED <<success_count, failure_count>>
        ELSE /\ pc' = "write"
             /\ failure_count' = (IF verified = "False" THEN failure_count + 1 ELSE failure_count)
             /\ success_count' = (IF verified = "False" THEN success_count ELSE success_count + 1))
    /\ UNCHANGED <<aside, thread, log>>
    /\ UNCHANGED <<cfg, world, to_check, filepath, original, destination, verified, verification,
                   counter, records, yielded, popped>>

\* main: the counter and the iteration up to the end of its try block (cli.py 86-137)
MainBody ==
    /\ pc = "body"
    /\ cfg.engine = "main"
    /\ counter' = counter + 1
    /\ \E in1 \in OrigInputs(cfg, world, filepath) :
          \E in2 \in DestInputs(cfg, world, filepath, MainOriginal(cfg, filepath, in1)) :
             \E out \in {MainTry(cfg, filepath, original, destination, verified, verification, in1, in2)} :
                 /\ pc' = (IF out.ctl = "continue" THEN "loop" ELSE out.ctl)
                 /\ original' = out.original
                 /\ destination' = out.destination
                 /\ verified' = out.verified
                 /\ verification' = out.verification
                 /\ yielded' = (IF out.ctl = "continue" THEN Fated(yielded, "skipped") ELSE yielded)
                 /\ log' = (IF out.ctl = "exit"
                            THEN ExitLogged(cfg, filepath, MainOriginal(cfg, filepath, in1), log)
                            ELSE log)
    /\ UNCHANGED <<aside, thread>>
    /\ UNCHANGED <<cfg, world, to_check, filepath, success_count, failure_count, records, popped>>

\* The number of the row: total_count() in execute (verifier.py 82-83, 196), counter in main (cli.py 176)
RowNumber == IF cfg.engine = "execute" THEN success_count + failure_count ELSE counter

\* Whether building the row raises: it reads original.type, origpath and destpath (verifier.py 196-201, cli.py 176-181)
RowRaises ==
    ~Bound(original) \/ ~Has(original, "type") \/ ~Has(original, "destpath") \/ verified = "unbound"

\* The row of the report (verifier.py 196-202, cli.py 175-182)
WriteRow ==
    /\ pc = "write"
    /\ (IF RowRaises
        THEN /\ pc' = "crash"
             /\ UNCHANGED <<records, yielded>>
        ELSE /\ pc' = "loop"
             /\ records' = Append(records, [number |-> RowNumber, type |-> original.type,
                                            original |-> original.origpath, destination |-> original.destpath,
                                            verified |-> verified, verification |-> verification])
             /\ yielded' = Fated(yielded, "recorded"))
    /\ UNCHANGED <<aside, thread, log>>
    /\ UNCHANGED <<cfg, world, to_check, filepath, original, destination, verified, verification,
                   success_count, failure_count, counter, popped>>

\* Whole runs: trees of up to MaxNodes entries over the plain contents.
Init == Start(RepoWorlds(0, MaxNodes, "plain"), FsWorlds(0, MaxNodes, "plain"))

\* Runs over one resource, a repository root or the one file of a directory, over every content.
InitPair == Start(RepoWorlds(0, 0, "all"), FsWorlds(1, 1, "all"))

Next == LoadConfig \/ Connect \/ WalkNext \/ WalkStop \/ ExecuteBody \/ ExecuteCount \/ MainBody \/ WriteRow

Spec == Init /\ [][Next]_vars

SpecPair == InitPair /\ [][Next]_vars

----------------------------------------------------------------------------
\* relaxed_compare (utils.py 66-92), called apart from a run.  These graphs
\* hold no blank nodes, so graph_diff gives the two set differences.  An
\* object is a literal, a lexical form with a datatype ("none" for a plain
\* literal), and a triple is <<subject, predicate, object>>.

\* rdflib.term.Literal
Literal(lex, dt) == [lex |-> lex, dt |-> dt]

\* The objects of the triples: plain and xsd:string literals, and numbers in several lexical forms.
Literals ==
    {Literal("a", "none"), Literal("a", "string"), Literal("b", "none"), Literal("b", "string"),
     Literal("1", "integer"), Literal("01", "integer"), Literal("1.0", "decimal")}

Statements == {"s"} \X {"p", "q"} \X Literals

LiteralGraphs == {g \in SUBSET Statements : Cardinality(g) <= MaxTriples}

\* The None that Graph.value answers where the graph holds no object.
NoValue == [lex |-> "", dt |-> "None"]

\* The datatypes rdflib compares in the value space of numbers.
NumericTypes == {"integer", "decimal"}

\* Literal.value of a number: the three lexical forms denote one.
NumberOf(l) == IF l.lex \in {"1", "01", "1.0"} THEN 1 ELSE 0

\* Literal.eq: numbers by value, a plain literal as an xsd:string, nothing equal to None
eq(o, v) ==
    IF v = NoValue THEN FALSE
    ELSE IF o.dt \in NumericTypes /\ v.dt \in NumericTypes THEN NumberOf(o) = NumberOf(v)
    ELSE LET dtself == IF o.dt = "none" THEN "string" ELSE o.dt
             dtother == IF v.dt = "none" THEN "string" ELSE v.dt
         IN  dtself = dtother /\ o.lex = v.lex

\* rdflib.compare.graph_diff of two graphs without blank nodes
graph_diff(g1, g2) == [in_both |-> g1 \cap g2, in_first |-> g1 \ g2, in_second |-> g2 \ g1]

\* Graph.value(subject, predicate): any one object the graph holds for them, None where it holds none
Values(g, s, p) ==
    IF \E t \in g : t[1] = s /\ t[2] = p
    THEN {t[3] : t \in {u \in g : u[1] = s /\ u[2] = p}}
    ELSE {NoValue}

\* What Graph.value can answer over a graph: one object for each subject and predicate.
Answers(g) ==
    {f \in [{"s"} \X {"p", "q"} -> Literals \cup {NoValue}] :
        \A k \in {"s"} \X {"p", "q"} : f[k] \in Values(g, k[1], k[2])}

\* The truth of o.eq(v) in "if not o.eq(v)" (utils.py 80, 87).  For v None
\* the rdflib installed decides: its Literal.eq returns False, or returns
\* NotImplemented, which "not" takes for true (lenient).
eq_true(o, v, lenient) == IF v = NoValue THEN lenient ELSE eq(o, v)

\* A relaxed_compare without the comparison of the lengths.
relaxed_compareAnyLength(g1, g2, same, value1, value2, lenient) ==
    LET d == graph_diff(g1, g2)
    IN  IF same THEN TRUE
        ELSE IF \E t \in d.in_first : ~eq_true(t[3], value2[<<t[1], t[2]>>], lenient) THEN FALSE
        ELSE IF \E t \in d.in_second : ~eq_true(t[3], value1[<<t[1], t[2]>>], lenient) THEN FALSE
        ELSE TRUE

\* A relaxed_compare that compares the extra triples of the first graph only.
relaxed_compareOneWay(g1, g2, same, value1, value2, lenient) ==
    LET d == graph_diff(g1, g2)
    IN  IF same THEN TRUE
        ELSE IF Cardinality(g1) # Cardinality(g2) THEN FALSE
        ELSE IF \E t \in d.in_first : ~eq_true(t[3], value2[<<t[1], t[2]>>], lenient) THEN FALSE
        ELSE TRUE

\* relaxed_compare: same is graph1 == graph2 (the graphs' identifiers), value1 and value2 the answers of
\* in_first.value and in_second.value, lenient what "not" makes of eq's answer for None
relaxed_compare(g1, g2, same, value1, value2, lenient) ==
    LET d == graph_diff(g1, g2)
    IN  IF same THEN TRUE
        ELSE IF Cardinality(g1) # Cardinality(g2) THEN FALSE
        ELSE IF \E t \in d.in_first : ~eq_true(t[3], value2[<<t[1], t[2]>>], lenient) THEN FALSE
        ELSE IF \E t \in d.in_second : ~eq_true(t[3], value1[<<t[1], t[2]>>], lenient) THEN FALSE
        ELSE TRUE

\* The main thread at rest while a function is called apart from a run: all but the configuration.
Resting ==
    /\ world = CHOOSE w \in RepoWorlds(0, 0, "plain") : TRUE
    /\ pc = "done"
    /\ to_check = <<>>
    /\ filepath = None
    /\ original = Unbound
    /\ destination = Unbound
    /\ verified = "unbound"
    /\ verification = <<>>
    /\ success_count = 0
    /\ failure_count = 0
    /\ counter = 0
    /\ records = <<>>
    /\ yielded = <<>>
    /\ log = {}
    /\ popped = <<>>
    /\ Asleep

\* The main thread at rest with a configuration of its own.
AtRest ==
    /\ cfg = CHOOSE c \in Configs : c.engine = "execute" /\ c.mode = "export"
    /\ Resting

\* Two graphs to compare; a graph compared with itself is the one case of equal identifiers.
InitRelaxed ==
    /\ AtRest
    /\ NoMaterialize
    /\ NoUtility
    /\ graph1 \in LiteralGraphs
    /\ graph2 \in LiteralGraphs
    /\ relaxed \in {"call", "call same"}
    /\ (relaxed = "call same" => graph1 = graph2)
    /\ eq_none \in BOOLEAN
    /\ again = [swapped |-> FALSE, verdict |-> "none", same |-> (relaxed = "call same")]

\* The call of relaxed_compare(graph1, graph2)
RelaxedCompare ==
    /\ relaxed \in {"call", "call same"}
    /\ \E value1 \in Answers(graph_diff(graph1, graph2).in_first) :
          \E value2 \in Answers(graph_diff(graph1, graph2).in_second) :
             relaxed' = (IF relaxed_compare(graph1, graph2, relaxed = "call same", value1, value2, eq_none)
                         THEN "True" ELSE "False")
    /\ UNCHANGED <<graph1, graph2, eq_none, again, mapping, source, temps, materialized, fs, returned, thread>>
    /\ UNCHANGED <<cfg, world, pc, to_check, filepath, original, destination, verified, verification,
                   success_count, failure_count, counter, records, yielded, log, popped>>

\* A second call on the same pair of graphs, as relaxed_compare(graph1, graph2)
\* or as relaxed_compare(graph2, graph1); Graph.value answers anew.
RelaxedCompareAgain ==
    /\ relaxed \in {"True", "False"}
    /\ again.verdict = "none"
    /\ \E swapped \in BOOLEAN :
          LET g1 == IF swapped THEN graph2 ELSE graph1
              g2 == IF swapped THEN graph1 ELSE graph2
          IN  \E value1 \in Answers(graph_diff(g1, g2).in_first) :
                 \E value2 \in Answers(graph_diff(g1, g2).in_second) :
                    again' = [again EXCEPT !.swapped = swapped,
                                           !.verdict = (IF relaxed_compare(g1, g2, again.same, value1, value2, eq_none)
                                                        THEN "True" ELSE "False")]
    /\ UNCHANGED <<graph1, graph2, relaxed, eq_none, mapping, source, temps, materialized, fs, returned, thread>>
    /\ UNCHANGED <<cfg, world, pc, to_check, filepath, original, destination, verified, verification,
                   success_count, failure_count, counter, records, yielded, log, popped>>

NextRelaxed == RelaxedCompare \/ RelaxedCompareAgain

SpecRelaxed == InitRelaxed /\ [][NextRelaxed]_vars

----------------------------------------------------------------------------
\* LocalResource.__init__ with a mapping (resources.py 161-179) and
\* replace_strings_in_file (utils.py 54-63).  A file is a sequence of lines,
\* a line a string; the parser refuses a file that holds a "!".

\* Largest number of lines of a file.
MaxLines == 2

\* The lines a serialization is made of.
Lines == {<<"x", "y">>, <<"y", "x">>, <<"x", "!">>, <<"y">>}

\* The files of up to MaxLines lines.
Files == UNION {[1..k -> Lines] : k \in 0..MaxLines}

\* config.mapFrom and config.mapTo: None (not active), or the two strings of the map option.
Mappings ==
    {[mapFrom |-> <<>>, mapTo |-> <<>>, active |-> FALSE]}
    \cup [mapFrom : {<<"x">>, <<"x", "y">>}, mapTo : {<<"y">>, <<"!">>, <<>>}, active : {TRUE}]

\* str.replace: every occurrence of old, found from the left and not overlapping, gives way to new
RECURSIVE replace(_, _, _)
replace(line, old, new) ==
    IF Len(line) < Len(old) THEN line
    ELSE IF SubSeq(line, 1, Len(old)) = old
         THEN new \o replace(SubSeq(line, Len(old) + 1, Len(line)), old, new)
    ELSE <<line[1]>> \o replace(SubSeq(line, 2, Len(line)), old, new)

\* The file replace_strings_in_file writes: each line of the input, replaced
replaced_lines(lines, find_str, replace_str) ==
    [i \in 1..Len(lines) |-> replace(lines[i], find_str, replace_str)]

\* Graph().parse: whether the parser accepts the file
parses(lines) == \A i \in 1..Len(lines) : \A j \in 1..Len(lines[i]) : lines[i][j] # "!"

\* LocalResource.__init__, the rdf branch: how it ends and the temporary files it leaves on disk.
\* mkstemp creates the copy before fileinput opens the input.
materialize(m, src, disk) ==
    LET copy == replaced_lines(src.lines, m.mapFrom, m.mapTo)
    IN  IF ~m.active
        THEN (IF ~src.exists THEN [ends |-> "FileNotFoundError", temps |-> disk]
              ELSE IF ~parses(src.lines) THEN [ends |-> "Exception", temps |-> disk]
              ELSE [ends |-> "returned", temps |-> disk])
        ELSE IF ~src.exists THEN [ends |-> "FileNotFoundError", temps |-> disk \cup {<<>>}]
        ELSE IF ~parses(copy) THEN [ends |-> "Exception", temps |-> disk \cup {copy}]
        ELSE [ends |-> "returned", temps |-> disk]

\* A serialized resource about to be materialized, with or without a mapping.
InitMapped ==
    /\ AtRest
    /\ NoCompare
    /\ NoUtility
    /\ mapping \in Mappings
    /\ source \in ({[exists |-> FALSE, lines |-> <<>>]} \cup [exists : {TRUE}, lines : Files])
    /\ temps = {}
    /\ materialized = "call"

\* LocalResource(inputpath, config, logger, console) for an RDF file
Materialize ==
    /\ materialized = "call"
    /\ materialized' = materialize(mapping, source, temps).ends
    /\ temps' = materialize(mapping, source, temps).temps
    /\ UNCHANGED <<graph1, graph2, relaxed, eq_none, again, mapping, source, fs, returned, thread>>
    /\ UNCHANGED <<cfg, world, pc, to_check, filepath, original, destination, verified, verification,
                   success_count, failure_count, counter, records, yielded, log, popped>>

NextMapped == Materialize

SpecMapped == InitMapped /\ [][NextMapped]_vars

----------------------------------------------------------------------------
\* execute with its reporter (verifier.py 79-98): count_logger runs in a
\* daemon thread, started once the counters exist and gone with the process.

\* The thread runs: execute is in its loop.
Reporting == cfg.engine = "execute" /\ pc \in {"loop", "body", "count", "write"}

\* A summary line that clears the counters it reports.
ReporterLogClearing ==
    /\ Reporting
    /\ reporter.pc = "format"
    /\ console_only' = [logged |-> TRUE, total |-> reporter.total,
                        successes |-> success_count, failures |-> failure_count]
    /\ reporter' = [pc |-> "sleep", total |-> 0]
    /\ success_count' = 0
    /\ failure_count' = 0
    /\ UNCHANGED aside
    /\ UNCHANGED <<cfg, world, pc, to_check, filepath, original, destination, verified, verification,
                   counter, records, yielded, log, popped>>

\* count_logger after its sleep: total_count() reads the two counters (verifier.py 82-83, 86-87)
ReporterTotal ==
    /\ Reporting
    /\ reporter.pc = "sleep"
    /\ reporter' = [pc |-> "format", total |-> success_count + failure_count]
    /\ UNCHANGED console_only
    /\ UNCHANGED aside
    /\ UNCHANGED <<cfg, world, pc, to_check, filepath, original, destination, verified, verification,
                   success_count, failure_count, counter, records, yielded, log, popped>>

\* count_logger: the line is formatted from the total read and the two counters, and logged (verifier.py 85-94)
ReporterLog ==
    /\ Reporting
    /\ reporter.pc = "format"
    /\ console_only' = [logged |-> TRUE, total |-> reporter.total,
                        successes |-> success_count, failures |-> failure_count]
    /\ reporter' = [pc |-> "sleep", total |-> 0]
    /\ UNCHANGED aside
    /\ UNCHANGED <<cfg, world, pc, to_check, filepath, original, destination, verified, verification,
                   success_count, failure_count, counter, records, yielded, log, popped>>

\* The steps of the main thread of execute.
MainThread == LoadConfig \/ Connect \/ WalkNext \/ WalkStop \/ ExecuteBody \/ ExecuteCount \/ WriteRow

\* Exports by execute of a repository that holds its root alone, with the reporter.
InitReporter ==
    /\ Start(RepoWorlds(0, 0, "plain"), FsWorlds(0, 0, "plain"))
    /\ cfg.engine = "execute"
    /\ cfg.mode = "export"
    /\ cfg.repo = REPO_WITH_PATH
    /\ cfg.dir = DIR_PLAIN
    /\ cfg.lang \in RdfLangs

NextReporter == MainThread \/ ReporterTotal \/ ReporterLog

\* The main thread is scheduled again and again; nothing is asked of the reporter.
SpecReporter == InitReporter /\ [][NextReporter]_vars /\ WF_vars(MainThread)

----------------------------------------------------------------------------
\* The walkers over deeper trees (iterators.py 5-51): execute with binaries,
\* one repository and one directory, each side a tree of up to MaxEntries
\* entries.

\* Largest number of entries of a tree in the runs that follow the walker.
MaxEntries == 3

InitWalk ==
    /\ Start(RepoWorlds(0, MaxEntries, "plain"), FsWorlds(0, MaxEntries, "plain"))
    /\ cfg.engine = "execute"
    /\ cfg.bin
    /\ cfg.repo = REPO_WITH_PATH
    /\ cfg.dir = DIR_PLAIN
    /\ cfg.lang \in RdfLangs
    /\ cfg.loglevel = "INFO"

NextWalk == MainThread

SpecWalk == InitWalk /\ [][NextWalk]_vars

\* The same runs with the reporter, over repositories of up to MaxProbed
\* nodes under the root (a binary brings its description) and directories of
\* up to MaxEntries entries.
MaxProbed == 1

InitWalkReporter ==
    /\ Start(RepoWorlds(0, MaxProbed, "plain"), FsWorlds(0, MaxEntries, "plain"))
    /\ cfg.engine = "execute"
    /\ cfg.bin
    /\ cfg.repo = REPO_WITH_PATH
    /\ cfg.dir = DIR_PLAIN
    /\ cfg.lang \in RdfLangs
    /\ cfg.loglevel = "INFO"

\* The main thread comes out of __next__ with an item popped.
Pops ==
    /\ pc = "loop"
    /\ to_check # <<>>
    /\ popped' = Append(popped, [id |-> to_check[Len(to_check)], below |-> SubSeq(to_check, 1, Len(to_check) - 1)])

\* The main thread leaves the body of the loop: with a return, a sys.exit or an exception.
BodyLeft == pc = "body" /\ pc' \in {"loop", "count", "exit", "crash"}

\* The main thread is scheduled again and again, as in SpecReporter; nothing
\* is asked of the reporter.  WalkNext is the one step that pops an item and
\* ExecuteBody the one that leaves the body, and each can be taken wherever
\* the main thread is at it: their fairness is stated on the pop and on the
\* place of the thread.
SpecWalkReporter ==
    /\ InitWalkReporter
    /\ [][NextReporter]_vars
    /\ WF_vars(LoadConfig \/ Connect \/ WalkStop \/ ExecuteCount \/ WriteRow)
    /\ WF_popped(Pops)
    /\ WF_pc(BodyLeft)

----------------------------------------------------------------------------
\* get_data_dir (utils.py 48-51) and replace_strings_in_file (utils.py 54-63),
\* each called by itself.  The content of a file is a string; fileinput
\* opens its file in text mode, so that "\r\n" and "\r" are read as "\n".

\* Largest number of characters of the input file.
MaxChars == 4

LF == "\n"

CR == "\r"

\* The contents of a file of up to MaxChars characters.
Texts == UNION {[1..k -> {"x", "y", LF, CR}] : k \in 0..MaxChars}

\* The path handed to replace_strings_in_file, and the names mkstemp can make up.
FILE == <<"f">>

TempPaths == {<<"t", "0">>, <<"t", "1">>}

Paths == {FILE} \cup TempPaths

\* No file at a path.
Absent == [exists |-> FALSE, text |-> <<>>]

\* The roots config.dir is drawn from when get_data_dir is called by itself.
Roots == {DIR_PLAIN, DIR_HIDDEN, DIR_SPACED, <<>>, <<"/">>, <<"/", "d", "/">>, BAG_DATA_DIR}

\* open(file, "r"): the text the reader sees, line ends translated
RECURSIVE universal_newlines(_)
universal_newlines(text) ==
    IF text = <<>> THEN <<>>
    ELSE IF Head(text) = CR /\ Len(text) > 1 /\ text[2] = LF THEN <<LF>> \o universal_newlines(SubSeq(text, 3, Len(text)))
    ELSE IF Head(text) = CR THEN <<LF>> \o universal_newlines(Tail(text))
    ELSE <<Head(text)>> \o universal_newlines(Tail(text))

\* for line in f: each line with its "\n"; also a last line that has none
RECURSIVE readlines(_, _)
readlines(text, line) ==
    IF text = <<>> THEN (IF line = <<>> THEN <<>> ELSE <<line>>)
    ELSE IF Head(text) = LF THEN <<line \o <<LF>>>> \o readlines(Tail(text), <<>>)
    ELSE readlines(Tail(text), line \o <<Head(text)>>)

\* dest.write(line), but for a line that no "\n" ends
RECURSIVE writtenTerminated(_)
writtenTerminated(lines) ==
    IF lines = <<>> THEN <<>>
    ELSE (IF Head(lines) # <<>> /\ Head(lines)[Len(Head(lines))] = LF THEN Head(lines) ELSE <<>>) \o writtenTerminated(Tail(lines))

\* dest.write(line), line after line: what the file holds at the end
RECURSIVE written(_)
written(lines) == IF lines = <<>> THEN <<>> ELSE Head(lines) \o written(Tail(lines))

\* tempfile.mkstemp: a file that was not there, created empty
mkstemp(disk) == {p \in TempPaths : ~disk[p].exists}

\* replace_strings_in_file(file, find_str, replace_str) with mkstemp making up path:
\* how it ends, what it returns and the files it leaves.
replace_strings_in_file(disk, file, find_str, replace_str, path) ==
    LET made == [disk EXCEPT ![path] = [exists |-> TRUE, text |-> <<>>]]
        lines == readlines(universal_newlines(disk[file].text), <<>>)
    IN  IF ~disk[file].exists
        THEN [ends |-> "FileNotFoundError", value |-> <<>>, disk |-> made]
        ELSE [ends |-> "returned", value |-> path,
              disk |-> [made EXCEPT ![path].text = written(replaced_lines(lines, find_str, replace_str))]]

\* A call of one of the two functions: a configuration for get_data_dir; a file
\* (or none) at the path, a find and a replacement string and what earlier
\* calls of mkstemp left for replace_strings_in_file.
InitUtils ==
    /\ Resting
    /\ NoCompare
    /\ source = [exists |-> FALSE, lines |-> <<>>]
    /\ temps = {}
    /\ materialized = "none"
    /\ returned \in [fn : {"get_data_dir", "replace_strings_in_file"}, ends : {"call"}, value : {<<>>}]
    /\ \E bag \in BOOLEAN, dir \in Roots :
          cfg = [(CHOOSE c \in Configs : c.engine = "execute" /\ c.mode = "export") EXCEPT !.bag = bag, !.dir = dir]
    /\ mapping \in Mappings
    /\ mapping.active = (returned.fn = "replace_strings_in_file")
    /\ \E file \in {Absent} \cup [exists : {TRUE}, text : Texts] :
          \E earlier \in {Absent, [exists |-> TRUE, text |-> <<"y">>]} :
             fs = (FILE :> file @@ <<"t", "0">> :> earlier @@ <<"t", "1">> :> Absent)
    /\ (returned.fn = "get_data_dir" => fs = [p \in Paths |-> Absent])
    /\ (returned.fn = "replace_strings_in_file" => (~cfg.bag /\ cfg.dir = DIR_PLAIN))

\* The call get_data_dir(config)
GetDataDir ==
    /\ returned.fn = "get_data_dir"
    /\ returned.ends = "call"
    /\ returned' = [returned EXCEPT !.ends = "returned", !.value = get_data_dir(cfg)]
    /\ UNCHANGED <<graph1, graph2, relaxed, eq_none, again, mapping, source, temps, materialized, fs, thread>>
    /\ UNCHANGED <<cfg, world, pc, to_check, filepath, original, destination, verified, verification,
                   success_count, failure_count, counter, records, yielded, log, popped>>

\* The call replace_strings_in_file(FILE, config.mapFrom, config.mapTo)
ReplaceStringsInFile ==
    /\ returned.fn = "replace_strings_in_file"
    /\ returned.ends = "call"
    /\ \E path \in mkstemp(fs) :
          \E out \in {replace_strings_in_file(fs, FILE, mapping.mapFrom, mapping.mapTo, path)} :
             /\ returned' = [returned EXCEPT !.ends = out.ends, !.value = out.value]
             /\ fs' = out.disk
    /\ UNCHANGED <<graph1, graph2, relaxed, eq_none, again, mapping, source, temps, materialized, thread>>
    /\ UNCHANGED <<cfg, world, pc, to_check, filepath, original, destination, verified, verification,
                   success_count, failure_count, counter, records, yielded, log, popped>>

NextUtils == GetDataDir \/ ReplaceStringsInFile

SpecUtils == InitUtils /\ [][NextUtils]_vars

----------------------------------------------------------------------------
\* Properties

\* How often the walker has returned an identifier.
Returned(id) == Cardinality({i \in 1..Len(yielded) : yielded[i].id = id})

\* A directory entry is a plain file whose own name is not hidden.
PlainFile(w, n) == w.label[n] \in {"rdf", "bin", "ext", "unk", "meta"}

\* The root's name or the name of an entry on the way down to n is hidden.
RECURSIVE HiddenOnPath(_, _, _)
HiddenOnPath(c, w, n) ==
    IF n = 0 THEN c.dir = DIR_HIDDEN
    ELSE w.label[n] \in {"hdir", "hfile"} \/ HiddenOnPath(c, w, w.parent[n])

\* Whatever the walker returned is a node of the tree or the description of a binary.
ReturnedAreNodes ==
    \A i \in 1..Len(yielded) :
        \/ \E n \in Nodes(world) : yielded[i].id = Ident(cfg, world, n)
        \/ (cfg.mode = "export" /\ \E n \in Nodes(world) :
                (world.label[n] \in {"bin", "ext"} /\ yielded[i].id = Ident(cfg, world, n) \o FCR_METADATA))

\* C1 as stated: a walker iterated to exhaustion has returned every node of the
\* repository tree, and every plain file of the directory tree whose name is
\* not hidden, exactly once, whatever the order of the listings.
C1_AsStated ==
    pc = "done" => \A n \in Nodes(world) : ((cfg.mode = "export" \/ PlainFile(world, n)) => Returned(Ident(cfg, world, n)) = 1)

\* C1 amended: a walker iterated to exhaustion has returned every node of the
\* repository tree and the description of every binary exactly once, and of
\* the directory tree exactly once every
\* plain file with no hidden name on its path from the root down (the root's
\* own name included) and no other entry, whatever the order of the listings.
C1_EveryLeafOnce ==
    pc = "done" =>
        /\ ReturnedAreNodes
        /\ \A n \in Nodes(world) :
              Returned(Ident(cfg, world, n))
                  = (IF cfg.mode = "export" \/ (PlainFile(world, n) /\ ~HiddenOnPath(cfg, world, n)) THEN 1 ELSE 0)
        /\ \A n \in Nodes(world) :
              (cfg.mode = "export" /\ world.label[n] \in {"bin", "ext"})
                  => Returned(Ident(cfg, world, n) \o FCR_METADATA) = 1

\* C1 witness: a directory walk is exhausted after returning a file and passing over a hidden sibling.
C1_Witness ==
    pc = "done" /\ cfg.mode = "import" /\ Len(yielded) >= 1 /\ \E n \in 1..world.n : world.label[n] \in {"hdir", "hfile"}

\* This iteration has built both the original and its destination.
ThisPair ==
    /\ Bound(original) /\ original.origpath = filepath /\ Has(original, "destpath")
    /\ Bound(destination) /\ destination.origpath = original.destpath

\* The row of this iteration has been written.
RowWritten ==
    /\ pc = "loop" /\ ThisPair
    /\ yielded # <<>> /\ yielded[Len(yielded)].fate = "recorded" /\ yielded[Len(yielded)].id = filepath

LastRow == records[Len(records)]

\* C2: the row of a binary pair is verified with the shared digest as its
\* explanation exactly when the two SHA-1 digests are equal, and otherwise
\* is not verified, with "<original digest> != <destination digest>".
C2_BinaryVerdict ==
    (RowWritten /\ original.type = "binary" /\ Has(original, "sha1") /\ Has(destination, "sha1")) =>
        IF original.sha1 = destination.sha1
        THEN LastRow.verified = "True" /\ LastRow.verification = <<original.sha1>>
        ELSE LastRow.verified = "False" /\ LastRow.verification = <<original.sha1, " != ", destination.sha1>>

\* C2 witness: a binary whose destination is an external one with the same digest has its row.
C2_Witness ==
    /\ RowWritten /\ original.type = "binary" /\ Has(original, "sha1") /\ Has(destination, "sha1")
    /\ original.sha1 = destination.sha1 /\ EndsWith(destination.origpath, EXT_BINARY_EXTERNAL)

\* Two triple sets are equal up to a consistent one-to-one renaming of blank nodes.
SameUpToBlankNodes(g1, g2) ==
    \E f \in [BNodes -> BNodes] :
        /\ \A x \in BNodes : \E y \in BNodes : f[y] = x
        /\ \A s \in {"u", "_1", "_2"}, o \in {"u", "_1", "_2"} : <<s, o>> \in g1 <=> <<(IF s \in BNodes THEN f[s] ELSE s), (IF o \in BNodes THEN f[o] ELSE o)>> \in g2

\* C3: the row of a structured pair is verified, with "<n> triples", exactly
\* when the two triple sets are equal up to a renaming of blank nodes, and
\* otherwise is not verified, with "<n>+<m> triples - mismatch".
C3_RdfVerdict ==
    (RowWritten /\ original.type = "rdf" /\ Has(original, "graph") /\ Has(destination, "graph")) =>
        LET n1 == NumStr(Cardinality(original.graph))
            n2 == NumStr(Cardinality(destination.graph))
        IN  IF SameUpToBlankNodes(original.graph, destination.graph)
            THEN LastRow.verified = "True" /\ LastRow.verification = <<n1, " triples">>
            ELSE LastRow.verified = "False" /\ LastRow.verification = <<n1, "+", n2, " triples - mismatch">>

\* C3 witness: two different graphs that differ by a renaming of blank nodes have their verified row.
C3_Witness ==
    /\ RowWritten /\ original.type = "rdf" /\ Has(original, "graph") /\ Has(destination, "graph")
    /\ original.graph # destination.graph /\ original.graph # {} /\ LastRow.verified = "True"

\* C4 as stated: the rows are numbered 1, 2, 3, ... without gaps, also when
\* identifiers were skipped, and the number of a row is the sum of the two
\* counters at the time the row is written.
C4_AsStated ==
    /\ \A i \in 1..Len(records) : records[i].number = i
    /\ (cfg.engine = "execute" /\ pc = "loop" /\ records # <<>>) => LastRow.number = success_count + failure_count

\* The rows and the sum of the counters when the identifier after the i-th was returned, or now.
RowsAfter(i) == IF i < Len(yielded) THEN yielded[i + 1].rows ELSE Len(records)

TotalAfter(i) == IF i < Len(yielded) THEN yielded[i + 1].total ELSE success_count + failure_count

\* C5: when the loop has ended with the walker exhausted, every identifier
\* the walker returned was either skipped (binaries are excluded; no row,
\* counters as they were) or recorded (one row, and in execute one count):
\* none silently dropped, none recorded twice.
C5_OneFate ==
    pc = "done" =>
        \A i \in 1..Len(yielded) :
            \/ (yielded[i].fate = "skipped" /\ ~cfg.bin /\ RowsAfter(i) = yielded[i].rows /\ TotalAfter(i) = yielded[i].total)
            \/ (yielded[i].fate = "recorded" /\ RowsAfter(i) = yielded[i].rows + 1 /\ (cfg.engine = "execute" => TotalAfter(i) = yielded[i].total + 1))

\* C5 witness: a run of execute ends after a skipped and a recorded identifier, one of the rows a failure.
C5_Witness ==
    /\ pc = "done" /\ cfg.engine = "execute" /\ failure_count >= 1
    /\ \E i, j \in 1..Len(yielded) : (yielded[i].fate = "skipped" /\ yielded[j].fate = "recorded")

\* C6 as stated: no resource the walker returned makes the run end in an
\* exception nothing handles: whatever is raised while the pair is built
\* or compared becomes a failure row and the loop goes on.
C6_AsStated == pc = "crash" => yielded = <<>>

\* The resource on the side of the directory in this iteration is of no known kind.
LocalUnknown ==
    \/ (cfg.mode = "import" /\ ~is_binary(filepath) /\ ~EndsWith(filepath, cfg.ext))
    \/ (cfg.mode = "export" /\ ThisPair /\ destination.type = "unknown")

\* C7 as stated: a file of the directory whose kind cannot be told moves
\* neither counter and does not end the run.
C7_AsStated ==
    (yielded # <<>> /\ yielded[Len(yielded)].id = filepath /\ LocalUnknown) =>
        (pc \notin {"crash", "exit"} /\ success_count + failure_count = yielded[Len(yielded)].total)

\* The rows so far with the given verdict.
Tally(v) == Cardinality({i \in 1..Len(records) : records[i].verified = v})

\* The count made for a row that is yet to be written.
Due(v) == IF pc = "write" /\ verified = v THEN 1 ELSE 0

\* C8: in execute the two counters never decrease, each row moves exactly
\* one of them by exactly one (the success counter when the row is verified,
\* the failure counter otherwise) and nothing else moves them, a skipped
\* identifier in particular.
C8_Counters ==
    /\ [](cfg.engine = "execute" =>
            /\ success_count = Tally("True") + Due("True")
            /\ failure_count = Tally("False") + Due("False"))
    /\ [][/\ success_count' >= success_count
          /\ failure_count' >= failure_count
          /\ \/ records' = records
             \/ (Len(records') = Len(records) + 1 /\ SubSeq(records', 1, Len(records)) = records)]_vars

\* C8 witness: a run of execute ends with a success, a failure and a skipped identifier.
C8_Witness ==
    /\ pc = "done" /\ cfg.engine = "execute" /\ success_count >= 1 /\ failure_count >= 1
    /\ \E i \in 1..Len(yielded) : yielded[i].fate = "skipped"

\* The identifier is that of a binary or of the description of one.
BinaryOrDescription(id) ==
    IF cfg.mode = "export"
    THEN \E n \in Nodes(world) : (world.label[n] \in {"bin", "ext"} /\ id \in {Ident(cfg, world, n), Ident(cfg, world, n) \o FCR_METADATA})
    ELSE \E n \in Nodes(world) : (world.label[n] \in {"bin", "ext", "meta"} /\ id = Ident(cfg, world, n))

\* C9 as stated: in export and import alike, once the original of an
\* identifier is built the identifier is skipped exactly when binaries are
\* excluded and it is a binary or the description of a binary.
C9_AsStated ==
    (yielded # <<>> /\ yielded[Len(yielded)].id = filepath /\ Bound(original) /\ original.origpath = filepath) =>
        (yielded[Len(yielded)].fate = "skipped" <=> (~cfg.bin /\ BinaryOrDescription(filepath)))

\* C10 as stated: with no remapping, the repository counterpart of the
\* filesystem counterpart of a repository resource is a URI whose path is
\* the relative path of the resource, reserved characters included.
C10_AsStated ==
    (cfg.mode = "export" /\ ThisPair /\ Has(destination, "destpath")) => UrlPath(destination.destpath) = original.relpath


\* The graphs of a call differ only in the datatype of plain strings: each
\* holds what the other holds once every xsd:string literal is made plain.
Plain(g) == {<<t[1], t[2], (IF t[3].dt = "string" THEN Literal(t[3].lex, "none") ELSE t[3])>> : t \in g}

\* Every triple that only g holds has an object value-equal to one h holds for its subject and predicate.
Matched(g, h) ==
    \A t \in g \ h : \E u \in h : u[1] = t[1] /\ u[2] = t[2] /\ eq(t[3], u[3])

\* C11: relaxed_compare never returns True for two graphs that hold
\* different numbers of triples.
C11_NeverTrueForDifferentSizes ==
    (relaxed = "True") => (Cardinality(graph1) = Cardinality(graph2))

\* relaxed_compare has returned False for two graphs of different sizes whose
\* triples are value-equal, one number in three lexical forms.
C11_Witness ==
    /\ relaxed = "False"
    /\ Cardinality(graph1) < Cardinality(graph2)
    /\ graph1 # {}
    /\ Matched(graph1, graph2)
    /\ Matched(graph2, graph1)

\* C12: for two graphs of equal size relaxed_compare returns True exactly
\* when every triple only one of them holds has an object value-equal to an
\* object the other holds for that subject and predicate; so it returns True
\* for graphs that differ only in the datatype of plain strings, a subject
\* and predicate with several objects included.
C12_AsStated ==
    (relaxed \in {"True", "False"} /\ Cardinality(graph1) = Cardinality(graph2))
        => /\ (relaxed = "True") <=> (Matched(graph1, graph2) /\ Matched(graph2, graph1))
           /\ (Plain(graph1) = Plain(graph2)) => (relaxed = "True")

\* The connection test has failed: its entry is in the log.
ConnectionFailed == "Connection to {0} failed. Exiting." \in log

\* Nothing of the reconciliation has happened.
NothingDone ==
    /\ yielded = <<>>
    /\ records = <<>>
    /\ success_count = 0
    /\ failure_count = 0
    /\ counter = 0

\* C13: when the connection test of the repository root receives a status
\* other than 200, such as 404, the process exits with a non-zero status and
\* the walker has returned no identifier, no row is written and no counter
\* has moved; an exported root that does not answer 200 always fails the test.
C13_UnreachableRootExits ==
    /\ ConnectionFailed => (pc = "exit" /\ NothingDone)
    /\ (/\ cfg.engine = "execute"
        /\ cfg.mode = "export"
        /\ pc \notin {"config", "start"}
        /\ cfg.lang \in RdfLangs
        /\ SchemeSep(RepositoryRoot(cfg)) # 0
        /\ RepoKind(cfg, world, cfg.repo) \notin {"rdf", "bin"}) => ConnectionFailed

\* The root of the repository answered 404 to the connection test and the process has exited.
C13_Witness ==
    /\ ConnectionFailed
    /\ pc = "exit"
    /\ cfg.mode = "export"
    /\ RepoKind(cfg, world, cfg.repo) = "gone"

\* The walker of a repository is about to probe the node on top of its stack.
Probing == pc = "loop" /\ cfg.mode = "export" /\ to_check # <<>>

\* What the HEAD of the node on top of the stack answers: 200, 307, or another status.
ProbeKind == RepoKind(cfg, world, to_check[Len(to_check)])

NotInPath == "Resource not in path specified in config file." \in log

\* C15: the loop ends the process with the "resource not in path" error for
\* an identifier the walker returned exactly when the identifier starts with
\* neither the repository root URI nor the filesystem root path; a file
\* under the filesystem root is materialized and compared.
C15_AsStated ==
    (filepath # None /\ pc # "body")
        => (NotInPath <=> (~StartsWith(filepath, cfg.repo) /\ ~StartsWith(filepath, cfg.dir)))

\* C16: when the destination of a binary original is an external-by-reference
\* resource, its path ending with the external suffix, the row carries the
\* explanation "external resource" and neither a digest nor a digest mismatch.
C16_AsStated ==
    (/\ RowWritten
     /\ original.type = "binary"
     /\ EndsWith(destination.origpath, EXT_BINARY_EXTERNAL)
     /\ Has(original, "sha1")
     /\ Has(destination, "sha1"))
        => (LastRow.verification = <<"external resource">>)

\* C17: with a mapping active, the temporary mapped copy made while a
\* serialized RDF resource is materialized is on disk no more once the
\* constructor has returned or raised, whether the copy parsed or not.
C17_AsStated ==
    (mapping.active /\ materialized \notin {"none", "call"}) => (temps = {})

\* A step of the reporter: the thread moves or its line at the console changes.
ReporterStep == reporter' # reporter \/ console_only' # console_only

\* C18: a step of the reporter leaves the success counter, the failure
\* counter, the walker's stack and the rows as they are, and the main loop
\* never waits for the reporter: scheduled on its own, whatever the reporter
\* does or fails to do, the main thread brings the run to its end.
C18_ReporterOnlyReads ==
    /\ [][ReporterStep => UNCHANGED <<success_count, failure_count, to_check, records, yielded, pc>>]_vars
    /\ <>(pc \in {"done", "exit", "crash"})

\* The run is over, rows written, while the reporter sits between its two reads.
C18_Witness ==
    /\ pc = "done"
    /\ records # <<>>
    /\ reporter.pc = "format"
    /\ console_only.logged

\* C19: every exit of the process on a fatal error (the root not reachable,
\* a probe answering a status not expected, an identifier outside the
\* configured paths, a serialization not recognized) comes after an entry of
\* the log that describes the failure: no fatal exit without an entry.
C19_AsStated == (pc = "exit") => (log # {})

\* The resources this iteration has built with a counterpart path.
Translated == {r \in {original, destination} : Bound(r) /\ Has(r, "destpath")}

\* The suffixes a serialized resource carries.
Suffixes == {EXT_BINARY_INTERNAL, EXT_BINARY_EXTERNAL, cfg.ext}

\* A string holds the character.
Holds(s, ch) == \E i \in 1..Len(s) : s[i] = ch

C29_AsStated ==
    (pc # "config")
        => /\ RepoBase(cfg) \o RepoPath(cfg) = cfg.repo
           /\ RepoBase(cfg) = GetBaseUri(cfg.repo)

\* C27: every summary the reporter logs while the main loop runs is
\* consistent in itself: the total of the line is the sum of the successes
\* and the failures of the same line, however the reporter's reads fall
\* between the main loop's increments.
C27_AsStated ==
    console_only.logged => (console_only.total = console_only.successes + console_only.failures)

\* C28: every row describes the identifier the walker returned in that
\* iteration, its original path being that identifier, also when building
\* the original raised: no row carries the paths or the kind of a resource
\* of an earlier iteration, and the first iteration does not fail for want
\* of one.
C28_AsStated ==
    /\ (yielded # <<>> /\ yielded[Len(yielded)].fate = "recorded")
          => (LastRow.original = yielded[Len(yielded)].id)
    /\ (cfg.engine = "execute" /\ Len(yielded) = 1 /\ yielded[1].fate = "pending" /\ ~Bound(original))
          => (pc # "crash")

\* The URI is that of a node HEAD types as a binary (a non-RDF source).
BinaryNode(u) == cfg.mode = "export" /\ RepoKind(cfg, world, u) \in {"bin", "ext"}

Hidden(p) == StartsWith(Basename(p), <<".">>)

\* The directory walker is about to pop the path on top of its stack.
Popping == pc = "loop" /\ cfg.mode = "import" /\ to_check # <<>>

\* C23 as stated: the stack of the directory walker never holds a hidden
\* entry other than the root: a hidden entry is skipped when it is
\* discovered, without being queued.
C23_AsStated ==
    cfg.mode = "import" =>
        \A i \in 1..Len(to_check) : (to_check[i] = cfg.dir \/ ~Hidden(to_check[i]))

\* C23 amended: a hidden entry is queued with the other entries of its
\* directory and passed over when it is popped: the step that pops it returns
\* None and pushes nothing, so no hidden entry is ever returned and nothing
\* below a hidden entry (or below a hidden root) is ever on the stack.
C23_HiddenPassedOver ==
    /\ [][(Popping /\ Hidden(to_check[Len(to_check)]))
             => /\ to_check' = SubSeq(to_check, 1, Len(to_check) - 1)
                /\ filepath' = None
                /\ yielded' = yielded
                /\ pc' = "loop"]_vars
    /\ [](cfg.mode = "import" =>
             /\ \A i \in 1..Len(yielded) : ~Hidden(yielded[i].id)
             /\ \A i \in 1..Len(to_check) :
                   \E n \in Nodes(world) :
                      /\ to_check[i] = Ident(cfg, world, n)
                      /\ (n # 0 => ~HiddenOnPath(cfg, world, world.parent[n])))

\* A hidden directory that holds an entry waits on the stack, queued by the listing of its parent.
C23_Witness ==
    /\ cfg.mode = "import"
    /\ \E i \in 1..Len(to_check) :
          \E n \in 1..world.n :
             /\ to_check[i] = Ident(cfg, world, n)
             /\ world.label[n] = "hdir"
             /\ ChildIds(world, n) # {}

\* C30: relaxed_compare is symmetric and deterministic: a second call on the
\* same pair of graphs, in the same order or with the two graphs exchanged,
\* returns the verdict of the first, also when a subject and predicate carry
\* more than one object.
C30_SymmetricDeterministic ==
    (again.verdict # "none") => (again.verdict = relaxed)

\* Two different graphs were compared in both orders, one subject and
\* predicate carrying two objects in each, and found equal.
C30_Witness ==
    /\ again.verdict = "True"
    /\ again.swapped
    /\ graph1 # graph2
    /\ \E t, u \in graph1 : (t # u /\ t[1] = u[1] /\ t[2] = u[2])
    /\ \E t, u \in graph2 : (t # u /\ t[1] = u[1] /\ t[2] = u[2])

\* C21: get_data_dir returns config.dir as it is when the bag option is off
\* and config.dir followed by "/data" when it is on, whatever the root.
C21_DataDir ==
    (returned.fn = "get_data_dir" /\ returned.ends = "returned") =>
        returned.value = (IF cfg.bag THEN cfg.dir \o <<"/", "d", "a", "t", "a">> ELSE cfg.dir)

\* get_data_dir has returned for a bag whose root ends with a slash.
C21_Witness ==
    /\ returned.fn = "get_data_dir"
    /\ returned.ends = "returned"
    /\ cfg.bag
    /\ cfg.dir = <<"/", "d", "/">>
    /\ returned.value = <<"/", "d", "/", "/", "d", "a", "t", "a">>

\* Whether find_str stands in text at position i.
Occurs(text, find_str, i) == i + Len(find_str) - 1 <= Len(text) /\ SubSeq(text, i, i + Len(find_str) - 1) = find_str

\* text from position i on, each occurrence of find_str given way to
\* replace_str; no two occurrences of a find string of the model overlap.
RECURSIVE Substituted(_, _, _, _)
Substituted(text, find_str, replace_str, i) ==
    IF i > Len(text) THEN <<>>
    ELSE (IF Occurs(text, find_str, i) THEN replace_str
          ELSE IF \E j \in 1..(i - 1) : j + Len(find_str) > i /\ Occurs(text, find_str, j) THEN <<>>
          ELSE <<text[i]>>) \o Substituted(text, find_str, replace_str, i + 1)

\* text from position i on, every line end written as "\n".
RECURSIVE LineEndsAsLF(_, _)
LineEndsAsLF(text, i) ==
    IF i > Len(text) THEN <<>>
    ELSE (IF text[i] = CR /\ i < Len(text) /\ text[i + 1] = LF THEN <<>>
          ELSE IF text[i] = CR THEN <<LF>>
          ELSE <<text[i]>>) \o LineEndsAsLF(text, i + 1)

\* A call of replace_strings_in_file on a file that exists.
Replacing == ReplaceStringsInFile /\ fs[FILE].exists

\* The call returns the path of a file that was not there, and leaves every other file as it was.
NewFileReturned ==
    /\ returned'.ends = "returned"
    /\ returned'.value \in TempPaths
    /\ ~fs[returned'.value].exists
    /\ fs'[returned'.value].exists
    /\ \A p \in Paths \ {returned'.value} : fs'[p] = fs[p]

\* C22 as stated: replace_strings_in_file returns the path of a new file that
\* holds the lines of the input file, in their order and as they are but for
\* every occurrence of the find string replaced (a last line without "\n"
\* too), and leaves the input file as it was.  No string of the model holds
\* a line end, so that replacing in each line is replacing in the text.
C22_AsStated ==
    [][Replacing =>
          /\ NewFileReturned
          /\ fs'[returned'.value].text = Substituted(fs[FILE].text, mapping.mapFrom, mapping.mapTo, 1)]_vars

\* C22, amended: the new file holds the lines of the input file as text mode
\* reads them, in their order, every line end "\r\n" or "\r" written as
\* "\n" and every occurrence of the find string replaced (a last line
\* without a line end too); the input file is left as it was.
C22_ReplacedCopy ==
    [][Replacing =>
          /\ NewFileReturned
          /\ fs'[returned'.value].text =
                Substituted(LineEndsAsLF(fs[FILE].text, 1), mapping.mapFrom, mapping.mapTo, 1)]_vars

\* The call has returned a copy of two lines, the second without a line end and with an occurrence replaced.
C22_Witness ==
    /\ returned.fn = "replace_strings_in_file"
    /\ returned.ends = "returned"
    /\ mapping.mapFrom = <<"x", "y">>
    /\ fs[FILE].text = <<"x", LF, "x", "y">>
    /\ fs[returned.value].text = <<"x", LF, "!">>

\* The identifiers of a side: its nodes and, in a repository, the description of each binary.
Identifiers ==
    {Ident(cfg, world, n) : n \in Nodes(world)}
    \cup (IF cfg.mode = "export"
          THEN {Ident(cfg, world, n) \o FCR_METADATA : n \in {b \in Nodes(world) : world.label[b] \in {"bin", "ext"}}}
          ELSE {})

\* v lies below u.
Below(u, v) == StartsWith(v, u \o <<"/">>)

\* The descendants of u a walker is shown: on the filesystem, none of a
\* hidden entry and none through one.
Descendants(u) ==
    {v \in Identifiers :
        /\ Below(u, v)
        /\ (cfg.mode = "import" =>
               (~Hidden(u) /\ \A h \in Identifiers : (Below(u, h) /\ Below(h, v)) => ~Hidden(h)))}

\* Whether item is in the stack.
OnStack(item, stack) == \E s \in 1..Len(stack) : stack[s] = item

C26_Completes == <>(pc \in {"exit", "crash"} \/ (pc = "done" /\ to_check = <<>>))

\* execute has returned from a directory of MaxEntries entries while the reporter was about to log a line.
C26_Witness ==
    /\ pc = "done"
    /\ to_check = <<>>
    /\ world.n = MaxEntries
    /\ Len(popped) > MaxEntries
    /\ reporter.pc = "format"
    /\ console_only.logged

====
